---------------------------- MODULE Spec2Model ----------------------------
(* Model of PluginBrowser/plugin_manager_module.py: the manifest fetcher, *)
(* the installed-set scanner and the four lifecycle operations acting on   *)
(* the plugin root directory.                                              *)
(*                                                                         *)
(* A file name is a sequence of tokens; the token "." is the dot           *)
(* character and every other token is a dot-free, non-empty piece of text, *)
(* so that pathlib's suffix arithmetic and str.endswith can be computed    *)
(* the way the code computes them.  The plugin root is a function from the *)
(* names of its existing children to their entries; a directory entry      *)
(* carries the set of relative paths of the files below it.  plugin_dir is *)
(* what lies at the path of the plugin root itself: a directory, nothing,  *)
(* or a file; fs is empty unless it is a directory.                        *)
(*                                                                         *)
(* The presentation layer (PluginBrowser/load.py) is modelled by the state *)
(* of its trees, buttons and status line, the worker threads it has        *)
(* started and the callbacks it has handed to the main loop with after(0). *)
EXTENDS Integers, Sequences, FiniteSets, TLC

VARIABLES fs, call, trip, calls, plugin_dir, ui, workers, events

\* the state of the presentation layer: its widgets, the worker threads in
\* flight, and the callbacks queued for the main loop
uivars == <<ui, workers, events>>

vars == <<fs, call, trip, calls, plugin_dir, ui, workers, events>>

-----------------------------------------------------------------------------
(* Names *)

DOT == "."

DisabledSuffix == <<DOT, "disabled">>

P == <<"P">>

PD == P \o DisabledSuffix

LoadPy == <<"load.py">>

Readme == <<"README">>

Other == <<"other">>

\* the ids and folder names the operations are called with
Ids == {P, PD}

\* str.rfind('.'), 1-based, 0 when there is no dot
RFindDot(name) ==
    LET idx == {i \in 1..Len(name) : name[i] = DOT}
    IN IF idx = {} THEN 0 ELSE CHOOSE i \in idx : \A j \in idx : j <= i

\* PurePath.suffix: the last dot and what follows it, unless the dot is the
\* first or the last character of the name
Suffix(name) ==
    LET i == RFindDot(name)
    IN IF 1 < i /\ i < Len(name) THEN SubSeq(name, i, Len(name)) ELSE <<>>

\* a with_suffix that appends to the whole name, doubling the old suffix
WithSuffixDoubled(name, suffix) == name \o suffix

\* PurePath.with_suffix: replace the old suffix, or append when there is none
WithSuffix(name, suffix) ==
    LET old == Suffix(name)
    IN IF old = <<>> THEN name \o suffix
       ELSE SubSeq(name, 1, Len(name) - Len(old)) \o suffix

\* f"{plugin_base_name}.disabled"
DisabledName(name) == name \o DisabledSuffix

\* f"{plugin_id}_temp.zip"
TempZip(id) == id \o <<"_temp", DOT, "zip">>

\* f"{plugin_id}_temp_extract"
TempExtract(id) == id \o <<"_temp_extract">>

\* name.endswith(".disabled")
EndsWithDisabled(name) ==
    /\ Len(name) >= Len(DisabledSuffix)
    /\ SubSeq(name, Len(name) - Len(DisabledSuffix) + 1, Len(name)) = DisabledSuffix

\* name[:-len(".disabled")]
StripDisabled(name) == SubSeq(name, 1, Len(name) - Len(DisabledSuffix))

-----------------------------------------------------------------------------
(* The plugin root *)

FileEntry == [kind |-> "file", files |-> {}]

DirEntry(files) == [kind |-> "dir", files |-> files]

\* Path.exists()
Exists(root, name) == name \in DOMAIN root

\* Path.is_dir()
IsDir(root, name) == name \in DOMAIN root /\ root[name].kind = "dir"

\* Path.is_file()
IsFile(root, name) == name \in DOMAIN root /\ root[name].kind = "file"

Put(root, name, entry) ==
    [n \in (DOMAIN root) \cup {name} |-> IF n = name THEN entry ELSE root[n]]

Del(root, name) == [n \in (DOMAIN root) \ {name} |-> root[n]]

EmptyRoot == [n \in {} |-> FileEntry]

-----------------------------------------------------------------------------
(* Status sink and results *)

\* one invocation of the status callback by _status_update
Msg(sev, text) == [sev |-> sev, text |-> text]

\* what a call hands back: the root it leaves, its return value ("True",
\* "False", or "raised" when an exception leaves the function), the sink
\* invocations in order, and whether a download was started
Result(root, ret, st, dl) == [fs |-> root, ret |-> ret, st |-> st, dl |-> dl]

\* _status_update with the try block around the call of the sink left out
status_update_uncaught(sink, msg) == [escapes |-> sink = "raising", logged |-> FALSE]

\* _status_update(callback, message, msg_type) for a sink that returns
\* ("quiet") or raises an Exception ("raising") when invoked: the sink is
\* invoked, and what it raises is caught and logged
status_update(sink, msg) == [escapes |-> FALSE, logged |-> sink = "raising"]

\* a core call whose result with a sink that returns is res, made from the
\* plugin root root with the sink given: an exception leaving _status_update
\* ends the call at that message, and the first message of every operation
\* comes before its first change of the plugin root
Delivered(sink, root, res) ==
    LET escaped == {i \in 1..Len(res.st) : status_update(sink, res.st[i]).escapes}
        first == CHOOSE i \in escaped : \A j \in escaped : i <= j
    IN IF escaped = {} THEN res
       ELSE [res EXCEPT !.fs = root, !.ret = "raised", !.st = SubSeq(res.st, 1, first)]

-----------------------------------------------------------------------------
(* Installed-set scanner *)

\* the loop of the scanner without the test for load.py of line 141
get_installed_plugins_every_dir(root) ==
    {[name   |-> IF EndsWithDisabled(item) THEN StripDisabled(item) ELSE item,
      status |-> IF EndsWithDisabled(item) THEN "disabled" ELSE "enabled",
      path   |-> item] :
        item \in {n \in DOMAIN root : IsDir(root, n)}}

\* the loop of get_installed_plugins over an existing plugin root: one entry
\* per child directory holding load.py
get_installed_plugins(root) ==
    {[name   |-> IF EndsWithDisabled(item) THEN StripDisabled(item) ELSE item,
      status |-> IF EndsWithDisabled(item) THEN "disabled" ELSE "enabled",
      path   |-> item] :
        item \in {n \in DOMAIN root : IsDir(root, n) /\ <<LoadPy>> \in root[n].files}}

\* what the path of the plugin root can be
RootKinds == {"dir", "missing", "file"}

\* outcomes of listing the plugin root
ScanFaults == {"none", "iterdir_oserror"}

\* the result of a scan: the entries returned, the records logged, whether an
\* exception left the function, and the plugin root and its kind afterwards
Scanned(plugins, log, raised, kind, root) ==
    [plugins |-> plugins, log |-> log, raised |-> raised, kind |-> kind, fs |-> root]

\* the scanner without the is_dir test of lines 129-131: listing a root that
\* is not a directory raises
get_installed_plugins_unguarded(kind, root, fault) ==
    IF kind # "dir" \/ fault = "iterdir_oserror"
    THEN Scanned({}, <<>>, TRUE, kind, root)
    ELSE Scanned(get_installed_plugins(root), <<>>, FALSE, kind, root)

\* get_installed_plugins as a whole; it has no try block, so a failure to
\* list the directory leaves it as an exception
get_installed_plugins_call(kind, root, fault) ==
    IF kind # "dir"
    THEN Scanned({}, <<Msg("warning", "plugin_dir_not_found")>>, FALSE, kind, root)
    ELSE IF fault = "iterdir_oserror"
    THEN Scanned({}, <<>>, TRUE, kind, root)
    ELSE Scanned(get_installed_plugins(root), <<>>, FALSE, kind, root)

-----------------------------------------------------------------------------
(* Lifecycle manager: remove, enable, disable *)

\* outcomes of the operating system's rename
RenameFaults == {"none", "oserror"}

\* outcomes of shutil.rmtree
RmtreeFaults == {"none", "oserror", "other"}

\* a copy to the destination that leaves the source in place
RenameKeepingSource(root, src, dst) == Put(root, dst, root[src])

\* Path.rename on a directory of the plugin root
Rename(root, src, dst) == Put(Del(root, src), dst, root[src])

\* remove_plugin; when rmtree fails the directory is left with the files in
\* left, those it had not deleted yet
remove_plugin(root, folder, fault, left) ==
    LET m0 == <<Msg("info", "removing")>>
    IN IF ~IsDir(root, folder)
       THEN Result(root, "False", Append(m0, Msg("error", "not_found")), FALSE)
       ELSE IF fault = "none"
       THEN Result(Del(root, folder), "True",
                   m0 \o <<Msg("info", "removed"), Msg("warning", "restart")>>, FALSE)
       ELSE Result(Put(root, folder, DirEntry(root[folder].files \cap left)), "False",
                   Append(m0, Msg("error", IF fault = "oserror" THEN "remove_oserror"
                                                               ELSE "remove_unexpected")),
                   FALSE)

\* the empty string as a folder name
EmptyName == <<>>

\* remove_plugin on the plugin root of kind kind: plugin_dir / "" is the
\* plugin root itself, so the empty name removes the root with all it holds
\* (a failing rmtree is taken to fail at its first entry); the result says
\* what the path of the plugin root is afterwards
remove_plugin_call(kind, root, folder, fault, left) ==
    LET m0 == <<Msg("info", "removing")>>
    IN IF folder # EmptyName
       THEN [res |-> remove_plugin(root, folder, fault, left), kind |-> kind]
       ELSE IF kind # "dir"
       THEN [res |-> Result(root, "False", Append(m0, Msg("error", "not_found")), FALSE),
             kind |-> kind]
       ELSE IF fault = "none"
       THEN [res |-> Result(EmptyRoot, "True",
                            m0 \o <<Msg("info", "removed"), Msg("warning", "restart")>>, FALSE),
             kind |-> "missing"]
       ELSE [res |-> Result(root, "False",
                            Append(m0, Msg("error", IF fault = "oserror" THEN "remove_oserror"
                                                    ELSE "remove_unexpected")), FALSE),
             kind |-> kind]

\* enable_plugin without the check of the destination (lines 261-264)
enable_plugin_unchecked(root, base, fault) ==
    LET disabled_path == DisabledName(base)
        enabled_path  == base
        m0 == <<Msg("info", "enabling")>>
    IN IF ~IsDir(root, disabled_path)
       THEN Result(root, "False", Append(m0, Msg("error", "not_found")), FALSE)
       ELSE IF fault = "none"
       THEN Result(Rename(root, disabled_path, enabled_path), "True",
                   m0 \o <<Msg("info", "enabled"), Msg("warning", "restart")>>, FALSE)
       ELSE Result(root, "False", Append(m0, Msg("error", "rename_oserror")), FALSE)

\* enable_plugin
enable_plugin(root, base, fault) ==
    LET disabled_path == DisabledName(base)
        enabled_path  == base
        m0 == <<Msg("info", "enabling")>>
    IN IF ~IsDir(root, disabled_path)
       THEN Result(root, "False", Append(m0, Msg("error", "not_found")), FALSE)
       ELSE IF Exists(root, enabled_path)
       THEN Result(root, "False", Append(m0, Msg("error", "already_exists")), FALSE)
       ELSE IF fault = "none"
       THEN Result(Rename(root, disabled_path, enabled_path), "True",
                   m0 \o <<Msg("info", "enabled"), Msg("warning", "restart")>>, FALSE)
       ELSE Result(root, "False", Append(m0, Msg("error", "rename_oserror")), FALSE)

\* disable_plugin
disable_plugin(root, base, fault) ==
    LET enabled_path  == base
        disabled_path == DisabledName(base)
        m0 == <<Msg("info", "disabling")>>
    IN IF ~IsDir(root, enabled_path)
       THEN Result(root, "False", Append(m0, Msg("error", "not_found")), FALSE)
       ELSE IF Exists(root, disabled_path)
       THEN Result(root, "False", Append(m0, Msg("error", "already_exists")), FALSE)
       ELSE IF fault = "none"
       THEN Result(Rename(root, enabled_path, disabled_path), "True",
                   m0 \o <<Msg("info", "disabled"), Msg("warning", "restart")>>, FALSE)
       ELSE Result(root, "False", Append(m0, Msg("error", "rename_oserror")), FALSE)

-----------------------------------------------------------------------------
(* Lifecycle manager: install *)

\* the archives a download can deliver for plugin id: each is the list of
\* its member paths (zip_ref.namelist(), each name split at "/")
Wrapped(id) == <<<<id, LoadPy>>, <<id, Readme>>>>

Flat == <<<<LoadPy>>, <<Readme>>>>

SingleFile(id) == <<<<id>>>>

EmptyZip == <<>>

OtherDir == <<<<Other, LoadPy>>>>

Archives(id) == {Wrapped(id), Flat, SingleFile(id), EmptyZip, OtherDir}

\* requests.get / raise_for_status fail, iter_content fails, the body read is
\* not a ZIP file (zipfile.ZipFile raises BadZipFile), or it is an archive
NetOutcomes == {"ok", "net_error", "stream_error", "not_a_zip"}

\* where the operating system or the archive reader fails during one call:
\* opening the temp file, mkdir, extractall (OSError, BadZipFile on a CRC
\* mismatch, or another exception, the last also with the cleanup rmtree
\* failing), shutil.move, the rmtree of the staging directory, the unlink
ExtractFaults == {"extract_oserror", "extract_badzip", "extract_other",
                  "extract_other_nocleanup"}

InstallFaults == {"none", "open", "mkdir", "move", "rmtree_staging", "unlink"}
                     \cup ExtractFaults

ExcOf(fault) ==
    CASE fault = "extract_oserror" -> "oserror"
      [] fault = "extract_badzip"  -> "badzip"
      [] OTHER                     -> "other"

\* top_level_members: the first path component of every member
TopLevel(body) == {Head(body[i]) : i \in 1..Len(body)}


\* the members extractall has written once it has handled the first k
Members(body, k) == {body[i] : i \in 1..k}

\* len(top_level_members) == 1 and top_level_members[0].rstrip('/') == plugin_id
IsWrapped(body, id) == Cardinality(TopLevel(body)) = 1 /\ TopLevel(body) = {id}

\* zip_ref.extractall(target): the members land below the directory target
ExtractAll(root, target, members) ==
    Put(root, target, DirEntry(root[target].files \cup members))

\* path a lies strictly above path b
IsPrefix(a, b) == Len(a) < Len(b) /\ SubSeq(b, 1, Len(a)) = a

\* extracting member m over files fails with an OSError: a directory of its
\* path exists as a file, or m itself exists as a directory
Clashes(files, m) == \E f \in files : IsPrefix(f, m) \/ IsPrefix(m, f)

\* the entry at staging/child: a file, or a directory with what lies below it
ChildEntry(root, staging, child) ==
    IF <<child>> \in root[staging].files THEN FileEntry
    ELSE DirEntry({Tail(f) : f \in {g \in root[staging].files : Len(g) > 1 /\ Head(g) = child}})

\* shutil.move raises (shutil.Error and FileExistsError are OSErrors) when the
\* destination is a directory that already has the child, or is a file and
\* the source a directory
MoveFails(root, staging, child, dst) ==
    \/ /\ IsDir(root, dst)
       /\ \E f \in root[dst].files : Head(f) = child
    \/ /\ IsFile(root, dst)
       /\ ChildEntry(root, staging, child).kind = "dir"

\* shutil.move(staging/child, dst): a rename when dst does not exist or is a
\* file; a move into dst when dst is an existing directory
Move(root, staging, child, dst) ==
    LET rest  == {f \in root[staging].files : Head(f) # child}
        moved == {f \in root[staging].files : Head(f) = child}
        r1    == Put(root, staging, DirEntry(rest))
    IN IF IsDir(root, dst)
       THEN Put(r1, dst, DirEntry(root[dst].files \cup moved))
       ELSE Put(r1, dst, ChildEntry(root, staging, child))

\* except clauses that log the failure and tell the sink nothing
CaughtUnreported(root, st, exc, install_path, cleanup, dl) ==
    LET r1 == IF exc = "other" /\ IsDir(root, install_path) /\ cleanup
              THEN Del(root, install_path) ELSE root
    IN Result(r1, "False", st, dl)

\* the except clauses of install_plugin: one error status; only the last,
\* catch-all clause removes the install directory (cleanup says whether that
\* rmtree works; it fails on a plain file)
Caught(root, st, exc, install_path, cleanup, dl) ==
    LET text == CASE exc = "request" -> "network_error"
                  [] exc = "badzip"  -> "bad_zip"
                  [] exc = "oserror" -> "fs_error"
                  [] OTHER           -> "unexpected"
        r1 == IF exc = "other" /\ IsDir(root, install_path) /\ cleanup
              THEN Del(root, install_path) ELSE root
    IN Result(r1, "False", Append(st, Msg("error", text)), dl)

\* the success exit without the restart notice of line 202
InstalledUnnoticed(root, st) ==
    Result(root, "True", Append(st, Msg("info", "installed")), TRUE)

\* the success exit of the try block
Installed(root, st) ==
    Result(root, "True",
           st \o <<Msg("info", "installed"), Msg("warning", "restart")>>, TRUE)

\* the finally clause: unlink the temp archive if it exists; a failing
\* unlink (or a directory in its place) raises out of the function
Finally(res, temp, unlinkFails) ==
    IF ~Exists(res.fs, temp) THEN res
    ELSE IF unlinkFails \/ IsDir(res.fs, temp) THEN [res EXCEPT !.ret = "raised"]
    ELSE [res EXCEPT !.fs = Del(res.fs, temp)]

\* lines 186-198: inspect the archive and extract it
Extract(root, id, body, fault, done, st) ==
    LET install_path == id
        staging      == TempExtract(id)
        cleanup      == fault # "extract_other_nocleanup"
    IN IF IsWrapped(body, id)
       THEN IF IsFile(root, staging) \/ fault = "mkdir"
            THEN Caught(root, st, "oserror", install_path, cleanup, TRUE)
            ELSE LET r2 == IF IsDir(root, staging) THEN root
                           ELSE Put(root, staging, DirEntry({}))
                     clash == {i \in 1..Len(body) : Clashes(r2[staging].files, body[i])}
                     first == CHOOSE i \in clash : \A j \in clash : i <= j
                 IN IF clash # {} /\ ~(fault \in ExtractFaults /\ done < first)
                    THEN Caught(ExtractAll(r2, staging, Members(body, first - 1)), st, "oserror",
                                install_path, cleanup, TRUE)
                    ELSE IF fault \in ExtractFaults
                    THEN Caught(ExtractAll(r2, staging, Members(body, done)), st, ExcOf(fault),
                                install_path, cleanup, TRUE)
                    ELSE LET r3 == ExtractAll(r2, staging, Members(body, Len(body)))
                         IN IF fault = "move" \/ MoveFails(r3, staging, id, install_path)
                            THEN Caught(r3, st, "oserror", install_path, cleanup, TRUE)
                            ELSE LET r4 == Move(r3, staging, id, install_path)
                                 IN IF fault = "rmtree_staging"
                                    THEN Caught(r4, st, "oserror", install_path, cleanup, TRUE)
                                    ELSE Installed(Del(r4, staging), st)
       ELSE IF IsFile(root, install_path) \/ fault = "mkdir"
            THEN Caught(root, st, "oserror", install_path, cleanup, TRUE)
            ELSE LET r2 == IF IsDir(root, install_path) THEN root
                           ELSE Put(root, install_path, DirEntry({}))
                 IN IF fault \in ExtractFaults
                    THEN Caught(ExtractAll(r2, install_path, Members(body, done)), st, ExcOf(fault),
                                install_path, cleanup, TRUE)
                    ELSE Installed(ExtractAll(r2, install_path, Members(body, Len(body))), st)

\* lines 176-184: download the archive to the temp file
Download(root, id, net, body, fault, done, st) ==
    LET install_path == id
        temp         == TempZip(id)
        m1           == Append(st, Msg("info", "downloading"))
    IN IF net = "net_error"
       THEN Caught(root, m1, "request", install_path, TRUE, TRUE)
       ELSE IF fault = "open" \/ IsDir(root, temp)
       THEN Caught(root, m1, "oserror", install_path, TRUE, TRUE)
       ELSE LET r1 == Put(root, temp, FileEntry)
            IN IF net = "stream_error"
               THEN Caught(r1, m1, "request", install_path, TRUE, TRUE)
               ELSE LET m2 == m1 \o <<Msg("info", "download_complete"),
                                      Msg("info", "extracting")>>
                    IN IF net = "not_a_zip"
                       THEN Caught(r1, m2, "badzip", install_path, TRUE, TRUE)
                       ELSE Extract(r1, id, body, fault, done, m2)

\* the conflict check of line 169
Conflict(root, install_path) ==
    \/ Exists(root, install_path)
    \/ Exists(root, WithSuffix(install_path, Suffix(install_path) \o DisabledSuffix))

\* install_plugin
install_plugin(root, id, net, body, fault, done) ==
    LET m0 == <<Msg("info", "installing")>>
    IN IF Conflict(root, id)
       THEN Result(root, "False", Append(m0, Msg("error", "already_exists")), FALSE)
       ELSE Finally(Download(root, id, net, body, fault, done, m0),
                    TempZip(id), fault = "unlink")

-----------------------------------------------------------------------------
(* Manifest fetcher *)

RequiredKeys == {"id", "name", "version", "author", "description", "downloadUrl"}

OptionalKeys == {"edmcCompatibility", "repositoryUrl"}

\* JSON null / Python None
Null == "null"

\* one element of the manifest array: a JSON object (obj maps its keys to
\* their values) or a value of another JSON type
Object(obj) == [kind |-> "object", obj |-> obj]

NonObject(kind) == [kind |-> kind, obj |-> [k \in {} |-> Null]]

\* well-formed record i without, and with, the optional keys
Plain(i) == Object([k \in RequiredKeys |-> i])

Rich(i) == Object([k \in RequiredKeys \cup OptionalKeys |-> i])

\* a well-formed record with one of the two optional keys
Partial(i) == Object([k \in RequiredKeys \cup {"repositoryUrl"} |-> i])

\* a record without its downloadUrl
Lacking(i) == Object([k \in RequiredKeys \ {"downloadUrl"} |-> i])

\* the longest manifest array the model fetches
MaxEntries == 3

EntryPool == {Plain("a"), Partial("d"), Lacking("c"), NonObject("string")}

ManifestLists == UNION {[1..n -> EntryPool] : n \in 0..MaxEntries}

\* a response to the GET of the manifest: its kind, and for a JSON array its
\* elements
Response(kind, entries) == [kind |-> kind, entries |-> entries]

\* what the GET of the manifest can produce: a transport failure, a status
\* outside 2xx, a body that is not JSON, a JSON root of a type other than
\* array, or an array
FetchFailures == {"connection_error", "timeout", "http_error", "bad_json"}

NonListRoots == {"root_object", "root_string", "root_number", "root_null"}

Responses == {Response(k, <<>>) : k \in FetchFailures \cup NonListRoots}
                 \cup {Response("array", l) : l \in ManifestLists}

\* plugin_entry[key] = None in place of setdefault
SetDefaultOverwriting(obj, key) ==
    [k \in (DOMAIN obj) \cup {key} |-> IF k = key THEN Null ELSE obj[k]]

\* dict.setdefault(key, None)
SetDefault(obj, key) ==
    IF key \in DOMAIN obj THEN obj
    ELSE [k \in (DOMAIN obj) \cup {key} |-> IF k = key THEN Null ELSE obj[k]]

\* the test of line 101 looking for the id alone
HasRequiredIdOnly(entry) == "id" \in DOMAIN entry.obj

\* all(key in plugin_entry for key in [...]) on a JSON object
HasRequired(entry) == RequiredKeys \subseteq DOMAIN entry.obj

\* the loop of lines 101-107 over the entries from position i on; it gives
\* the accepted records, or "raised" when an entry makes the loop body raise
\* (a non-object has no usable "in" or no .get/.setdefault)
RECURSIVE Validate(_, _, _)
Validate(entries, i, acc) ==
    IF i > Len(entries) THEN [raised |-> FALSE, plugins |-> acc]
    ELSE IF entries[i].kind # "object" THEN [raised |-> TRUE, plugins |-> <<>>]
    ELSE IF HasRequired(entries[i])
    THEN Validate(entries, i + 1,
                  Append(acc, SetDefault(SetDefault(entries[i].obj, "edmcCompatibility"),
                                         "repositoryUrl")))
    ELSE Validate(entries, i + 1, acc)

\* the result of a fetch: the list returned, the sink invocations, and
\* whether an exception left the function
Fetched(plugins, st) == [plugins |-> plugins, st |-> st, raised |-> FALSE]

FetchErrorText(response) ==
    CASE response.kind \in {"connection_error", "timeout", "http_error"} -> "network_error"
      [] response.kind = "bad_json" -> "json_error"
      [] OTHER -> "unexpected"

\* the fetcher with the return of line 98 missing: a root that is not a list
\* falls into the loop, which raises into the catch-all clause
fetch_available_plugins_no_return(url, response) ==
    LET m0 == <<Msg("info", "fetching")>>
    IN IF url = ""
       THEN Fetched(<<>>, <<Msg("error", "not_configured")>>)
       ELSE IF response.kind \in FetchFailures
       THEN Fetched(<<>>, Append(m0, Msg("error", FetchErrorText(response))))
       ELSE IF response.kind \in NonListRoots
       THEN Fetched(<<>>, m0 \o <<Msg("error", "not_a_list"), Msg("error", "unexpected")>>)
       ELSE LET v == Validate(response.entries, 1, <<>>)
            IN IF v.raised
               THEN Fetched(<<>>, Append(m0, Msg("error", "unexpected")))
               ELSE Fetched(v.plugins, Append(m0, Msg("info", "fetched")))

\* fetch_available_plugins; url is "" when no manifest URL is configured
fetch_available_plugins(url, response) ==
    LET m0 == <<Msg("info", "fetching")>>
    IN IF url = ""
       THEN Fetched(<<>>, <<Msg("error", "not_configured")>>)
       ELSE IF response.kind \in FetchFailures
       THEN Fetched(<<>>, Append(m0, Msg("error", FetchErrorText(response))))
       ELSE IF response.kind \in NonListRoots
       THEN Fetched(<<>>, Append(m0, Msg("error", "not_a_list")))
       ELSE LET v == Validate(response.entries, 1, <<>>)
            IN IF v.raised
               THEN Fetched(<<>>, Append(m0, Msg("error", "unexpected")))
               ELSE Fetched(v.plugins, Append(m0, Msg("info", "fetched")))

-----------------------------------------------------------------------------
(* Presentation layer: the trees, buttons and status line of PluginBrowserUI, *)
(* its worker threads and the callbacks queued with parent_frame.after(0)     *)

\* an empty tree selection
NoSel == <<>>

\* the number of worker threads started in a run
MaxWorkers == 5

\* the status line: the message shown and the thread that wrote it
Status(sev, text, by) == [sev |-> sev, text |-> text, by |-> by]

\* a worker thread: its number, the task it runs, the plugin it is for and
\* the status its row showed when it was started; for a thread holding the
\* entries of a scan, after is the number of lifecycle calls that had returned
\* when it read the plugin root
Worker(n, task, arg, status) ==
    [n |-> n, task |-> task, arg |-> arg, status |-> status, after |-> 0]

\* a callback handed to the main loop; after is that of the scan whose
\* entries it carries
Event(ev, rows, list, msg) ==
    [ev |-> ev, rows |-> rows, list |-> list, msg |-> msg, after |-> 0]

Simple(ev) == Event(ev, {}, <<>>, Msg("info", ""))

Report(sev, text) == Event("status", {}, <<>>, Msg(sev, text))

\* the manifests the presentation layer is served: two plugins, the second
\* with a repository URL, or a failure
UIResponses == {Response("array", <<Plain(P), Rich(PD)>>), Response("timeout", <<>>)}

\* the downloads the presentation layer is served
UINetOutcomes == {"ok", "net_error"}

\* the state after PluginBrowserUI.__init__: empty trees, buttons disabled,
\* and the two refreshes of lines 185-186 started.  Four fields record the
\* history of the run: the number of lifecycle calls that are over, which of
\* them changed the plugin root, the number that were over when the latest
\* scan displayed so far read the plugin root, and whether the entries of a
\* scan were ever replaced by those of a scan that read the root before a
\* change the displayed one had read after.
UIStart ==
    [available |-> <<>>, available_sel |-> NoSel,
     installed |-> {}, installed_sel |-> NoSel,
     install_button |-> "disabled", view_repo_button |-> "disabled",
     enable_disable_button |-> "disabled", remove_button |-> "disabled",
     status |-> Status("info", "refresh_available", "main"),
     started |-> 2,
     returned |-> 0, changed |-> {}, shown_after |-> 0, overwritten |-> FALSE]

WorkersStart == {Worker(1, "refresh_installed", NoSel, ""),
                 Worker(2, "refresh_available", NoSel, "")}

\* _update_status called with the messages st, from thread by
Shown(status, st, by) ==
    IF st = <<>> THEN status
    ELSE Status(st[Len(st)].sev, st[Len(st)].text, by)

\* _run_threaded_task: one more daemon thread, whatever is already running
Started(w, task, arg, status) == w \cup {Worker(ui.started + 1, task, arg, status)}

\* the record of available_plugins_list with the id selected
InfoOf(list, id) == {list[i] : i \in {j \in 1..Len(list) : list[j]["id"] = id}}

\* _on_available_plugin_select
OnAvailableSelect(u) ==
    [u EXCEPT !.install_button = IF u.available_sel # NoSel THEN "normal" ELSE "disabled",
              !.view_repo_button =
                  IF \E p \in InfoOf(u.available, u.available_sel) : p["repositoryUrl"] # Null
                  THEN "normal" ELSE "disabled"]

\* _on_installed_plugin_select
OnInstalledSelect(u) ==
    LET state == IF u.installed_sel # NoSel THEN "normal" ELSE "disabled"
    IN [u EXCEPT !.remove_button = state, !.enable_disable_button = state]

\* the user picks a row of the available tree
SelectAvailable(id) ==
    /\ \E i \in 1..Len(ui.available) : ui.available[i]["id"] = id
    /\ ui' = OnAvailableSelect([ui EXCEPT !.available_sel = id])
    /\ UNCHANGED <<fs, call, trip, calls, plugin_dir, workers, events>>

\* the user picks a row of the installed tree
SelectInstalled(name) ==
    /\ \E r \in ui.installed : r.name = name
    /\ ui' = OnInstalledSelect([ui EXCEPT !.installed_sel = name])
    /\ UNCHANGED <<fs, call, trip, calls, plugin_dir, workers, events>>

\* _install_selected_plugin, the user answering the confirmation with yes
ClickInstall(yes) ==
    /\ ui.install_button = "normal"
    /\ ui.started < MaxWorkers
    /\ IF InfoOf(ui.available, ui.available_sel) = {}
       THEN /\ ui' = [ui EXCEPT !.status = Status("warning", "select_a_plugin", "main")]
            /\ UNCHANGED workers
       ELSE IF yes
       THEN /\ ui' = [ui EXCEPT !.status = Status("info", "installing", "main"),
                                !.started = @ + 1]
            /\ workers' = Started(workers, "install", ui.available_sel, "")
       ELSE UNCHANGED <<ui, workers>>
    /\ UNCHANGED <<fs, call, trip, calls, plugin_dir, events>>

\* the row selected in the installed tree
SelectedRow == {r \in ui.installed : r.name = ui.installed_sel}

\* _remove_selected_plugin
ClickRemove(yes) ==
    /\ ui.remove_button = "normal"
    /\ ui.started < MaxWorkers
    /\ IF SelectedRow = {} \/ ~yes
       THEN UNCHANGED <<ui, workers>>
       ELSE \E r \in SelectedRow :
               /\ ui' = [ui EXCEPT !.status = Status("info", "removing", "main"),
                                   !.started = @ + 1]
               /\ workers' = Started(workers, "remove", r.name, r.status)
    /\ UNCHANGED <<fs, call, trip, calls, plugin_dir, events>>

\* _toggle_selected_plugin_status
ClickToggle(yes) ==
    /\ ui.enable_disable_button = "normal"
    /\ ui.started < MaxWorkers
    /\ IF SelectedRow = {} \/ ~yes
       THEN UNCHANGED <<ui, workers>>
       ELSE \E r \in SelectedRow :
               /\ ui' = [ui EXCEPT !.status = Status("info", "changing_status", "main"),
                                   !.started = @ + 1]
               /\ workers' = Started(workers, "toggle", r.name, r.status)
    /\ UNCHANGED <<fs, call, trip, calls, plugin_dir, events>>

\* _refresh_installed_plugins_list and _refresh_available_plugins_list, run
\* by the main loop or, for the available list, by the Refresh List button
Refresh(task) ==
    /\ ui.started < MaxWorkers
    /\ ui' = [ui EXCEPT !.status = Status("info", task, "main"), !.started = @ + 1]
    /\ workers' = Started(workers, task, NoSel, "")

ClickRefresh ==
    /\ Refresh("refresh_available")
    /\ UNCHANGED <<fs, call, trip, calls, plugin_dir, events>>

\* what task_wrapper and the task hand to the main loop once the core call
\* res is over: the callbacks of the task, or the error report of the
\* wrapper when the call raised
Posted(res, callbacks) ==
    IF res.ret = "raised" THEN <<Report("error", "task_error")>> ELSE callbacks

\* do_install on its thread: the core call with the status line as its sink,
\* then the refreshes it asks the main loop for
RunInstall(w, net) ==
    LET res == install_plugin(fs, w.arg, net, Wrapped(w.arg),
                              IF plugin_dir = "dir" THEN "none" ELSE "open", 0)
    IN /\ w \in workers /\ w.task = "install"
       /\ fs' = res.fs
       /\ ui' = [ui EXCEPT !.status = Shown(@, res.st, "worker"),
                          !.returned = @ + 1,
                          !.changed = IF res.fs = fs THEN @ ELSE @ \cup {ui.returned + 1}]
       /\ events' = events \o Posted(res,
                       <<Simple("refresh_installed")>> \o
                       IF res.ret = "True"
                       THEN <<Simple("refresh_available"), Simple("showinfo")>> ELSE <<>>)
       /\ workers' = workers \ {w}
       /\ UNCHANGED <<call, trip, calls, plugin_dir>>

\* do_remove on its thread; a disabled row is removed by its suffixed folder
RunRemove(w) ==
    LET folder == IF w.status = "disabled" THEN w.arg \o DisabledSuffix ELSE w.arg
        res == remove_plugin(fs, folder, "none", {})
    IN /\ w \in workers /\ w.task = "remove"
       /\ fs' = res.fs
       /\ ui' = [ui EXCEPT !.status = Shown(@, res.st, "worker"),
                          !.returned = @ + 1,
                          !.changed = IF res.fs = fs THEN @ ELSE @ \cup {ui.returned + 1}]
       /\ events' = events \o Posted(res,
                       <<Simple("refresh_installed")>> \o
                       IF res.ret = "True"
                       THEN <<Simple("refresh_available"), Simple("showinfo")>> ELSE <<>>)
       /\ workers' = workers \ {w}
       /\ UNCHANGED <<call, trip, calls, plugin_dir>>

\* do_toggle asking for the refresh of the installed list only after a call
\* that returned True
RunToggleRefreshOnSuccess(w, fault) ==
    LET res == IF w.status = "disabled" THEN enable_plugin(fs, w.arg, fault)
               ELSE disable_plugin(fs, w.arg, fault)
    IN /\ w \in workers /\ w.task = "toggle"
       /\ fs' = res.fs
       /\ ui' = [ui EXCEPT !.status = Shown(@, res.st, "worker"),
                          !.returned = @ + 1,
                          !.changed = IF res.fs = fs THEN @ ELSE @ \cup {ui.returned + 1}]
       /\ events' = events \o Posted(res,
                       IF res.ret = "True"
                       THEN <<Simple("refresh_installed"), Simple("showinfo")>> ELSE <<>>)
       /\ workers' = workers \ {w}
       /\ UNCHANGED <<call, trip, calls, plugin_dir>>

\* do_toggle on its thread: enable a row shown as disabled, disable any other
RunToggle(w, fault) ==
    LET res == IF w.status = "disabled" THEN enable_plugin(fs, w.arg, fault)
               ELSE disable_plugin(fs, w.arg, fault)
    IN /\ w \in workers /\ w.task = "toggle"
       /\ fs' = res.fs
       /\ ui' = [ui EXCEPT !.status = Shown(@, res.st, "worker"),
                          !.returned = @ + 1,
                          !.changed = IF res.fs = fs THEN @ ELSE @ \cup {ui.returned + 1}]
       /\ events' = events \o Posted(res,
                       <<Simple("refresh_installed")>> \o
                       IF res.ret = "True" THEN <<Simple("showinfo")>> ELSE <<>>)
       /\ workers' = workers \ {w}
       /\ UNCHANGED <<call, trip, calls, plugin_dir>>

\* fetch_and_populate_installed on its thread, line 247: the scan; the thread
\* goes on holding the entries it has read
RunRefreshInstalled(w) ==
    LET res == get_installed_plugins_call(plugin_dir, fs, "none")
    IN /\ w \in workers /\ w.task = "refresh_installed"
       /\ workers' = (workers \ {w}) \cup
                        {[Worker(w.n, "post_installed", res.plugins, "")
                             EXCEPT !.after = ui.returned]}
       /\ UNCHANGED <<fs, call, trip, calls, plugin_dir, ui, events>>

\* fetch_and_populate_installed on its thread, lines 248-250: the entries read
\* are handed to the main loop
PostInstalled(w) ==
    /\ w \in workers /\ w.task = "post_installed"
    /\ events' = events \o
                    <<[Event("populate_installed", w.arg, <<>>, Msg("info", ""))
                          EXCEPT !.after = w.after],
                      Report("info", "installed_refreshed")>>
    /\ workers' = workers \ {w}
    /\ UNCHANGED <<fs, call, trip, calls, plugin_dir, ui>>

\* fetch_and_populate on its thread
RunRefreshAvailable(w, response) ==
    LET res == fetch_available_plugins("url", response)
    IN /\ w \in workers /\ w.task = "refresh_available"
       /\ ui' = [ui EXCEPT !.status = Shown(@, res.st, "worker")]
       /\ events' = events \o
                       <<Event("populate_available", {}, res.plugins, Msg("info", "")),
                         IF res.plugins = <<>> THEN Report("warning", "fetch_failed_or_empty")
                         ELSE Report("info", "available_refreshed")>>
       /\ workers' = workers \ {w}
       /\ UNCHANGED <<fs, call, trip, calls, plugin_dir>>

\* the main loop runs a queued _refresh_installed_plugins_list or
\* _refresh_available_plugins_list
DoRefresh ==
    /\ events # <<>>
    /\ Head(events).ev \in {"refresh_installed", "refresh_available"}
    /\ Refresh(Head(events).ev)
    /\ events' = Tail(events)
    /\ UNCHANGED <<fs, call, trip, calls, plugin_dir>>

\* the rows of the installed tree for the scan entries given
Rows(entries) == {[name |-> e.name, status |-> e.status] : e \in entries}

\* the main loop runs _populate_installed_plugins_tree: the rows are deleted,
\* which empties the selection, and one row per entry is inserted under the
\* plugin name as item id.  A second entry of the same name makes insert raise:
\* the rows inserted so far stay, the buttons are not recomputed by line 242,
\* and whether deleting a selected row has already run the selection handler
\* depends on the Tk build.
DoPopulateInstalled ==
    /\ events # <<>>
    /\ Head(events).ev = "populate_installed"
    /\ LET rows == Rows(Head(events).rows)
           u1 == [ui EXCEPT !.installed_sel = NoSel,
                            !.shown_after = IF Head(events).after > @
                                            THEN Head(events).after ELSE @,
                            !.overwritten =
                                @ \/ \E m \in ui.changed :
                                        Head(events).after < m /\ m <= ui.shown_after]
       IN IF \A r1, r2 \in rows : r1.name = r2.name => r1 = r2
          THEN ui' = OnInstalledSelect([u1 EXCEPT !.installed = rows])
          ELSE \E kept \in SUBSET rows,
                  handled \in IF ui.installed_sel # NoSel THEN BOOLEAN ELSE {FALSE} :
                  /\ \A r1, r2 \in kept : r1.name = r2.name => r1 = r2
                  /\ \E r \in rows \ kept : \E k \in kept : k.name = r.name
                  /\ ui' = IF handled THEN OnInstalledSelect([u1 EXCEPT !.installed = kept])
                           ELSE [u1 EXCEPT !.installed = kept]
    /\ events' = Tail(events)
    /\ UNCHANGED <<fs, call, trip, calls, plugin_dir, workers>>

\* the main loop runs _populate_available_plugins_tree (the manifests served
\* repeat no id)
DoPopulateAvailable ==
    /\ events # <<>>
    /\ Head(events).ev = "populate_available"
    /\ ui' = OnAvailableSelect([ui EXCEPT !.available = Head(events).list,
                                         !.available_sel = NoSel])
    /\ events' = Tail(events)
    /\ UNCHANGED <<fs, call, trip, calls, plugin_dir, workers>>

\* the main loop runs a queued _update_status
DoStatus ==
    /\ events # <<>>
    /\ Head(events).ev = "status"
    /\ ui' = [ui EXCEPT !.status = Shown(@, <<Head(events).msg>>, "main")]
    /\ events' = Tail(events)
    /\ UNCHANGED <<fs, call, trip, calls, plugin_dir, workers>>

\* the main loop shows the completion dialog and the user closes it
DoShowInfo ==
    /\ events # <<>>
    /\ Head(events).ev = "showinfo"
    /\ events' = Tail(events)
    /\ UNCHANGED <<fs, call, trip, calls, plugin_dir, ui, workers>>

-----------------------------------------------------------------------------
(* The calls made on the core, one at a time *)

\* the folder names remove_plugin is called with: a caller passes the
\* suffixed name for a disabled plugin
Folders == Ids \cup {DisabledName(i) : i \in Ids}

\* a plugin directory as the host expects it
PluginDir == DirEntry({<<LoadPy>>, <<Readme>>})

\* the plugin roots a run starts from: empty, or holding one plugin that is
\* enabled or disabled, or one whose folder has the name install_plugin gives
\* its staging directory for P
InitRoots == {EmptyRoot} \cup {Put(EmptyRoot, n, PluginDir) : n \in Folders \cup {TempExtract(P)}}

\* the number of calls in a run
MaxCalls == 2

NoCall == [op |-> "none", arg |-> <<>>, pre |-> EmptyRoot, ret |-> "none",
           st |-> <<>>, dl |-> FALSE, fault |-> "none", body |-> <<>>, out |-> <<>>,
           prev |-> {}, sink |-> "quiet",
           quiet |-> [ret |-> "none", fs |-> EmptyRoot, out |-> <<>>]]

NoTrip == [stage |-> 0, base |-> <<>>, orig |-> EmptyRoot, faults |-> FALSE, ok |-> FALSE]

\* the record of the latest call: its operation and argument, the root
\* before it, what it returned and reported, the sink it was given, and the
\* outcome of the same call with a sink that returns
Called(op, arg, res, fault, body) ==
    [op |-> op, arg |-> arg, pre |-> fs, ret |-> res.ret, st |-> res.st,
     dl |-> res.dl, fault |-> fault, body |-> body, out |-> <<>>, prev |-> {},
     sink |-> "quiet", quiet |-> [ret |-> res.ret, fs |-> res.fs, out |-> <<>>]]

\* a plugin the scan reports as enabled, with no disabled sibling
IsEnabledPlugin(root, name) ==
    /\ [name |-> name, status |-> "enabled", path |-> name] \in get_installed_plugins(root)
    /\ ~Exists(root, DisabledName(name))

Init ==
    /\ plugin_dir \in RootKinds
    /\ fs \in IF plugin_dir = "dir" THEN InitRoots ELSE {EmptyRoot}
    /\ call = NoCall
    /\ trip = NoTrip
    /\ calls = 0
    /\ ui = UIStart
    /\ workers = WorkersStart
    /\ events = <<>>

\* one more call is made
Count ==
    /\ calls < MaxCalls
    /\ calls' = calls + 1

Install(id, net, body, fault, done) ==
    LET res == install_plugin(fs, id, net, body, fault, done)
    IN /\ Count
       /\ plugin_dir = "dir" \/ net = "net_error" \/ fault = "open"
       /\ fs' = res.fs
       /\ call' = Called("install", id, res, IF res.dl THEN fault ELSE "none",
                         IF res.dl THEN body ELSE <<>>)
       /\ trip' = NoTrip
       /\ UNCHANGED <<plugin_dir, uivars>>

Remove(folder, fault, left) ==
    LET out == remove_plugin_call(plugin_dir, fs, folder, fault, left)
        res == out.res
    IN /\ Count
       /\ fs' = res.fs
       /\ plugin_dir' = out.kind
       /\ call' = Called("remove", folder, res, fault, <<>>)
       /\ trip' = NoTrip
       /\ UNCHANGED uivars

Enable(base, fault) ==
    LET res == enable_plugin(fs, base, fault)
    IN /\ Count
       /\ fs' = res.fs
       /\ call' = Called("enable", base, res, fault, <<>>)
       /\ trip' = IF trip.stage = 1 /\ trip.base = base
                  THEN [trip EXCEPT !.stage = 2,
                                    !.faults = @ \/ fault # "none",
                                    !.ok = @ /\ res.ret = "True"]
                  ELSE NoTrip
       /\ UNCHANGED <<plugin_dir, uivars>>

Disable(base, fault) ==
    LET res == disable_plugin(fs, base, fault)
    IN /\ Count
       /\ fs' = res.fs
       /\ call' = Called("disable", base, res, fault, <<>>)
       /\ trip' = IF IsEnabledPlugin(fs, base)
                  THEN [stage |-> 1, base |-> base, orig |-> fs,
                        faults |-> fault # "none", ok |-> res.ret = "True"]
                  ELSE NoTrip
       /\ UNCHANGED <<plugin_dir, uivars>>

Fetch(url, response) ==
    LET res == fetch_available_plugins(url, response)
    IN /\ Count
       /\ call' = [NoCall EXCEPT !.op = "fetch", !.pre = fs, !.st = res.st,
                                 !.ret = IF res.raised THEN "raised" ELSE "list",
                                 !.arg = <<url>>, !.out = res.plugins,
                                 !.body = response.entries,
                                 !.quiet = [ret |-> IF res.raised THEN "raised" ELSE "list",
                                            fs |-> fs, out |-> res.plugins],
                                 !.fault = IF url = "" THEN "no_url" ELSE response.kind]
       /\ trip' = NoTrip
       /\ UNCHANGED <<fs, plugin_dir, uivars>>

\* what a scan hands on to the scan that follows it directly
Handed == IF call.op = "scan" /\ call.ret = "list" THEN {call.out} ELSE {}

\* a scan that removes the folders of the disabled plugins it has listed
ScanPruning(fault) ==
    LET res == get_installed_plugins_call(plugin_dir, fs, fault)
        gone == {e.path : e \in {x \in res.plugins : x.status = "disabled"}}
    IN /\ Count
       /\ fault = "none" \/ plugin_dir = "dir"
       /\ fs' = [n \in DOMAIN fs \ gone |-> fs[n]]
       /\ plugin_dir' = res.kind
       /\ call' = [NoCall EXCEPT !.op = "scan", !.arg = <<plugin_dir>>, !.pre = fs,
                                 !.ret = IF res.raised THEN "raised" ELSE "list",
                                 !.st = res.log, !.out = res.plugins,
                                 !.fault = fault, !.prev = Handed,
                                 !.quiet = [ret |-> IF res.raised THEN "raised" ELSE "list",
                                            fs |-> fs, out |-> <<>>]]
       /\ trip' = NoTrip
       /\ UNCHANGED uivars

\* a call of get_installed_plugins; the record keeps what the path of the
\* plugin root was, what was logged, the set of entries returned, and the
\* result of the scan before it when no other call came between
Scan(fault) ==
    LET res == get_installed_plugins_call(plugin_dir, fs, fault)
    IN /\ Count
       /\ fault = "none" \/ plugin_dir = "dir"
       /\ fs' = res.fs
       /\ plugin_dir' = res.kind
       /\ call' = [NoCall EXCEPT !.op = "scan", !.arg = <<plugin_dir>>, !.pre = fs,
                                 !.ret = IF res.raised THEN "raised" ELSE "list",
                                 !.st = res.log, !.out = res.plugins,
                                 !.fault = fault, !.prev = Handed,
                                 !.quiet = [ret |-> IF res.raised THEN "raised" ELSE "list",
                                            fs |-> fs, out |-> <<>>]]
       /\ trip' = NoTrip
       /\ UNCHANGED uivars

\* a lifecycle call made with a sink that raises on every invocation; ref is
\* the result of the call with a sink that returns
Raising(op, arg, ref, fault, body) ==
    LET res == Delivered("raising", fs, ref)
    IN /\ Count
       /\ fs' = res.fs
       /\ call' = [Called(op, arg, res, fault, body) EXCEPT
                      !.sink = "raising",
                      !.quiet = [ret |-> ref.ret, fs |-> ref.fs, out |-> <<>>]]
       /\ trip' = NoTrip
       /\ UNCHANGED uivars

InstallRaising(id, net, body, fault, done) ==
    LET ref == install_plugin(fs, id, net, body, fault, done)
    IN /\ plugin_dir = "dir" \/ net = "net_error" \/ fault = "open"
       /\ Raising("install", id, ref, IF ref.dl THEN fault ELSE "none",
                  IF ref.dl THEN body ELSE <<>>)
       /\ UNCHANGED plugin_dir

RemoveRaising(folder, fault, left) ==
    LET out == remove_plugin_call(plugin_dir, fs, folder, fault, left)
        res == Delivered("raising", fs, out.res)
    IN /\ Raising("remove", folder, out.res, fault, <<>>)
       /\ plugin_dir' = IF res.ret = "raised" THEN plugin_dir ELSE out.kind

EnableRaising(base, fault) ==
    /\ Raising("enable", base, enable_plugin(fs, base, fault), fault, <<>>)
    /\ UNCHANGED plugin_dir

DisableRaising(base, fault) ==
    /\ Raising("disable", base, disable_plugin(fs, base, fault), fault, <<>>)
    /\ UNCHANGED plugin_dir

\* a fetch made with a sink that raises on every invocation
FetchRaising(url, response) ==
    LET ref == fetch_available_plugins(url, response)
        esc == \E i \in 1..Len(ref.st) : status_update("raising", ref.st[i]).escapes
        res == IF esc THEN [plugins |-> <<>>, st |-> SubSeq(ref.st, 1, 1), raised |-> TRUE]
               ELSE ref
    IN /\ Count
       /\ call' = [NoCall EXCEPT !.op = "fetch", !.pre = fs, !.st = res.st,
                                 !.ret = IF res.raised THEN "raised" ELSE "list",
                                 !.arg = <<url>>, !.out = res.plugins,
                                 !.body = response.entries,
                                 !.fault = IF url = "" THEN "no_url" ELSE response.kind,
                                 !.sink = "raising",
                                 !.quiet = [ret |-> IF ref.raised THEN "raised" ELSE "list",
                                            fs |-> fs, out |-> ref.plugins]]
       /\ trip' = NoTrip
       /\ UNCHANGED <<fs, plugin_dir, uivars>>

\* the inputs of one install: at most one failure per call, and a failure
\* only where the path taken can meet it
InstallInputs(id) ==
    {i \in [net : NetOutcomes, body : Archives(id),
            fault : InstallFaults, done : 0..2] :
        /\ i.net # "ok" => i.body = EmptyZip /\ i.fault \in {"none", "unlink"}
        /\ i.net = "net_error" => i.fault = "none"
        /\ i.fault \in {"move", "rmtree_staging"} => IsWrapped(i.body, id)
        /\ IF i.fault \in ExtractFaults THEN i.done <= Len(i.body) ELSE i.done = 0}

\* the inputs of an install called on the plugin root as it is: a call the
\* conflict check refuses returns before it reads any of them
InstallInputsNow(id) ==
    IF Conflict(fs, id)
    THEN {[net |-> "ok", body |-> Wrapped(id), fault |-> "none", done |-> 0]}
    ELSE InstallInputs(id)

Next ==
    \/ \E id \in Ids : \E i \in InstallInputsNow(id) :
          Install(id, i.net, i.body, i.fault, i.done)
    \/ \E folder \in Folders \cup {EmptyName}, fault \in RmtreeFaults :
          \E left \in IF fault # "none" /\ IsDir(fs, folder)
                       THEN SUBSET fs[folder].files ELSE {{}} :
             Remove(folder, fault, left)
    \/ \E base \in Ids, fault \in RenameFaults : Enable(base, fault)
    \/ \E base \in Ids, fault \in RenameFaults : Disable(base, fault)
    \/ \E fault \in ScanFaults : Scan(fault)

\* the lifecycle calls and the scans on the plugin root
Spec == Init /\ [][Next]_vars

\* the manifest URLs: not configured, or configured
Urls == {"", "url"}

NextFetch ==
    \E url \in Urls, response \in Responses :
        /\ url = "" => response.kind = "timeout"
        /\ Fetch(url, response)

\* the fetches start on an existing plugin root, empty or holding plugin P
InitFetch ==
    /\ Init
    /\ plugin_dir = "dir"
    /\ fs \in {EmptyRoot, Put(EmptyRoot, P, PluginDir)}

\* the fetches of the manifest; they do not touch the plugin root
SpecFetch == InitFetch /\ [][NextFetch]_vars

\* the manifests fetched with a raising sink: the failures, the roots that are
\* no list, and the arrays of at most one element
SinkResponses == {r \in Responses : Len(r.entries) <= 1}

NextSink ==
    \/ \E id \in Ids : \E i \in InstallInputsNow(id) :
          InstallRaising(id, i.net, i.body, i.fault, i.done)
    \/ \E folder \in Folders \cup {EmptyName}, fault \in RmtreeFaults :
          \E left \in IF fault # "none" /\ IsDir(fs, folder)
                       THEN SUBSET fs[folder].files ELSE {{}} :
             RemoveRaising(folder, fault, left)
    \/ \E base \in Ids, fault \in RenameFaults : EnableRaising(base, fault)
    \/ \E base \in Ids, fault \in RenameFaults : DisableRaising(base, fault)
    \/ \E url \in Urls, response \in SinkResponses :
          /\ url = "" => response.kind = "timeout"
          /\ FetchRaising(url, response)

\* the calls with a raising sink start on an existing plugin root, empty or
\* holding plugin P enabled or disabled
InitSink ==
    /\ Init
    /\ plugin_dir = "dir"
    /\ fs \in {EmptyRoot, Put(EmptyRoot, P, PluginDir), Put(EmptyRoot, PD, PluginDir)}

\* the core calls made with a status sink that raises whenever it is invoked
SpecSink == InitSink /\ [][NextSink]_vars

NextUI ==
    \/ \E id \in Ids : SelectAvailable(id)
    \/ \E name \in Ids : SelectInstalled(name)
    \/ \E yes \in BOOLEAN : ClickInstall(yes)
    \/ \E yes \in BOOLEAN : ClickRemove(yes)
    \/ \E yes \in BOOLEAN : ClickToggle(yes)
    \/ ClickRefresh
    \/ \E w \in workers, net \in UINetOutcomes : RunInstall(w, net)
    \/ \E w \in workers : RunRemove(w)
    \/ \E w \in workers, fault \in RenameFaults : RunToggle(w, fault)
    \/ \E w \in workers : RunRefreshInstalled(w)
    \/ \E w \in workers : PostInstalled(w)
    \/ \E w \in workers, response \in UIResponses : RunRefreshAvailable(w, response)
    \/ DoRefresh
    \/ DoPopulateInstalled
    \/ DoPopulateAvailable
    \/ DoStatus
    \/ DoShowInfo

\* the plugin roots the presentation layer is started on: empty, or holding
\* the plugin P enabled or disabled
UIRoots == {EmptyRoot, Put(EmptyRoot, P, PluginDir), Put(EmptyRoot, PD, PluginDir)}

InitUI ==
    /\ Init
    /\ plugin_dir = "dir"
    /\ fs \in UIRoots

\* the presentation layer: the user, the worker threads and the main loop
SpecUI == InitUI /\ [][NextUI]_vars

\* a step of the Tk main loop: the callback at the head of the queue
MainLoop ==
    DoRefresh \/ DoPopulateInstalled \/ DoPopulateAvailable \/ DoStatus \/ DoShowInfo

\* a step of a started worker thread
Threads ==
    \E w \in workers :
        \/ \E net \in UINetOutcomes : RunInstall(w, net)
        \/ RunRemove(w)
        \/ \E fault \in RenameFaults : RunToggle(w, fault)
        \/ RunRefreshInstalled(w)
        \/ PostInstalled(w)
        \/ \E response \in UIResponses : RunRefreshAvailable(w, response)

\* an act of the user
User ==
    \/ \E id \in Ids : SelectAvailable(id)
    \/ \E name \in Ids : SelectInstalled(name)
    \/ \E yes \in BOOLEAN : ClickInstall(yes)
    \/ \E yes \in BOOLEAN : ClickRemove(yes)
    \/ \E yes \in BOOLEAN : ClickToggle(yes)
    \/ ClickRefresh

\* the user acts while no thread runs and no callback is queued
NextUILive ==
    \/ workers = {} /\ events = <<>> /\ User
    \/ MainLoop
    \/ Threads

\* the presentation layer with its scheduling, under a user who lets the
\* window settle before acting again: the main loop keeps running the
\* callbacks queued, a started thread runs to its end, and the user may stop
\* acting at any time
SpecUILive == InitUI /\ [][NextUILive]_vars /\ WF_vars(MainLoop) /\ WF_vars(Threads)

-----------------------------------------------------------------------------
(* Two install_plugin calls for one id on two threads, statement by statement *)

\* the threads
Installers == {1, 2}

\* the archives the download URL serves in a run
RaceArchives == {Wrapped(P), Flat}

\* a thread inside install_plugin: the statement it is at, the archive it
\* downloads, the value it is about to return, and its sink invocations
Installer(n, pc, body, ret, st) ==
    [n |-> n, pc |-> pc, body |-> body, ret |-> ret, st |-> st]

\* thread t is at statement pc
At(t, pc) == t \in workers /\ t.pc = pc

\* thread t goes on at statement pc
Goes(t, pc) == workers' = (workers \ {t}) \cup {[t EXCEPT !.pc = pc]}

\* thread t reports msg and goes on at statement pc
Says(t, msg, pc) ==
    workers' = (workers \ {t}) \cup {[t EXCEPT !.pc = pc, !.st = Append(@, msg)]}

\* an OSError in the try block: the except clause of line 208 reports it and
\* the function goes to its finally clause to return False
Fails(t) ==
    workers' = (workers \ {t}) \cup
                  {[t EXCEPT !.pc = "finally", !.ret = "False",
                             !.st = Append(@, Msg("error", "fs_error"))]}

RaceFrame == UNCHANGED <<call, trip, calls, plugin_dir, ui, events>>

\* lines 167-173: the first status and the conflict check
InstallCheck(t) ==
    /\ At(t, "check")
    /\ IF Conflict(fs, P)
       THEN workers' = (workers \ {t}) \cup
                          {[t EXCEPT !.pc = "done", !.ret = "False",
                                     !.st = <<Msg("info", "installing"),
                                              Msg("error", "already_exists")>>]}
       ELSE Says(t, Msg("info", "installing"), "download")
    /\ UNCHANGED fs
    /\ RaceFrame

\* lines 177-184: the download into the temp archive, which open(.., "wb")
\* creates or truncates
InstallDownload(t) ==
    /\ At(t, "download")
    /\ IF IsDir(fs, TempZip(P))
       THEN Fails(t) /\ UNCHANGED fs
       ELSE /\ fs' = Put(fs, TempZip(P), FileEntry)
            /\ workers' = (workers \ {t}) \cup
                              {[t EXCEPT !.pc = "open_zip",
                                         !.st = @ \o <<Msg("info", "downloading"),
                                                       Msg("info", "download_complete")>>]}
    /\ RaceFrame

\* lines 186-188: the temp archive is opened and its member names are read;
\* the open fails when the other thread has unlinked the file
InstallOpenZip(t) ==
    /\ At(t, "open_zip")
    /\ IF IsFile(fs, TempZip(P))
       THEN Says(t, Msg("info", "extracting"), "mkdir")
       ELSE workers' = (workers \ {t}) \cup
                          {[t EXCEPT !.pc = "finally", !.ret = "False",
                                     !.st = @ \o <<Msg("info", "extracting"),
                                                   Msg("error", "fs_error")>>]}
    /\ UNCHANGED fs
    /\ RaceFrame

\* the directory the archive of thread t is extracted into
Target(t) == IF IsWrapped(t.body, P) THEN TempExtract(P) ELSE P

\* lines 192 and 197: mkdir(parents=True, exist_ok=True)
InstallMkdir(t) ==
    /\ At(t, "mkdir")
    /\ IF IsFile(fs, Target(t))
       THEN Fails(t) /\ UNCHANGED fs
       ELSE /\ fs' = IF IsDir(fs, Target(t)) THEN fs ELSE Put(fs, Target(t), DirEntry({}))
            /\ Goes(t, "extractall")
    /\ RaceFrame

\* lines 193 and 198: extractall, which makes the directories it needs; the
\* flat archive is then installed
InstallExtractAll(t) ==
    /\ At(t, "extractall")
    /\ LET r1 == IF IsDir(fs, Target(t)) THEN fs ELSE Put(fs, Target(t), DirEntry({}))
       IN IF IsFile(fs, Target(t))
             \/ \E i \in 1..Len(t.body) : Clashes(r1[Target(t)].files, t.body[i])
          THEN Fails(t) /\ UNCHANGED fs
          ELSE /\ fs' = ExtractAll(r1, Target(t), Members(t.body, Len(t.body)))
               /\ Goes(t, IF IsWrapped(t.body, P) THEN "move" ELSE "installed")
    /\ RaceFrame

\* line 194: shutil.move of the staged directory; it fails when the other
\* thread has moved the staged directory away
InstallMove(t) ==
    /\ At(t, "move")
    /\ IF \/ ~IsDir(fs, TempExtract(P))
          \/ ~\E f \in fs[TempExtract(P)].files : Head(f) = P
          \/ MoveFails(fs, TempExtract(P), P, P)
       THEN Fails(t) /\ UNCHANGED fs
       ELSE /\ fs' = Move(fs, TempExtract(P), P, P)
            /\ Goes(t, "rmtree")
    /\ RaceFrame

\* line 195: shutil.rmtree of the staging directory; it fails when the other
\* thread has removed it
InstallRmtree(t) ==
    /\ At(t, "rmtree")
    /\ IF ~IsDir(fs, TempExtract(P))
       THEN Fails(t) /\ UNCHANGED fs
       ELSE /\ fs' = Del(fs, TempExtract(P))
            /\ Goes(t, "installed")
    /\ RaceFrame

\* lines 200-203: the success status, the restart notice and return True,
\* which runs the finally clause first
InstallSucceeds(t) ==
    /\ At(t, "installed")
    /\ workers' = (workers \ {t}) \cup
                      {[t EXCEPT !.pc = "finally", !.ret = "True",
                                 !.st = @ \o <<Msg("info", "installed"),
                                               Msg("warning", "restart")>>]}
    /\ UNCHANGED fs
    /\ RaceFrame

\* line 218: temp_zip_path.exists()
InstallFinallyExists(t) ==
    /\ At(t, "finally")
    /\ Goes(t, IF Exists(fs, TempZip(P)) THEN "unlink" ELSE "done")
    /\ UNCHANGED fs
    /\ RaceFrame

\* line 219: temp_zip_path.unlink(); the FileNotFoundError it raises when the
\* other thread has unlinked the file in between leaves the function
InstallFinallyUnlink(t) ==
    /\ At(t, "unlink")
    /\ IF IsFile(fs, TempZip(P))
       THEN fs' = Del(fs, TempZip(P)) /\ Goes(t, "done")
       ELSE /\ workers' = (workers \ {t}) \cup {[t EXCEPT !.pc = "done", !.ret = "raised"]}
            /\ UNCHANGED fs
    /\ RaceFrame

\* both threads are called on the empty plugin root for the same plugin,
\* whose URL serves one archive
InitRace ==
    /\ plugin_dir = "dir"
    /\ fs = EmptyRoot
    /\ call = NoCall
    /\ trip = NoTrip
    /\ calls = 0
    /\ ui = UIStart
    /\ events = <<>>
    /\ \E body \in RaceArchives :
          workers = {Installer(n, "check", body, "none", <<>>) : n \in Installers}

NextRace ==
    \/ \E t \in workers : InstallCheck(t)
    \/ \E t \in workers : InstallDownload(t)
    \/ \E t \in workers : InstallOpenZip(t)
    \/ \E t \in workers : InstallMkdir(t)
    \/ \E t \in workers : InstallExtractAll(t)
    \/ \E t \in workers : InstallMove(t)
    \/ \E t \in workers : InstallRmtree(t)
    \/ \E t \in workers : InstallSucceeds(t)
    \/ \E t \in workers : InstallFinallyExists(t)
    \/ \E t \in workers : InstallFinallyUnlink(t)

\* two concurrent installs of plugin P, interleaved at every statement
SpecRace == InitRace /\ [][NextRace]_vars

-----------------------------------------------------------------------------
(* Properties *)

LifecycleOps == {"install", "remove", "enable", "disable"}

\* the number of sink invocations of severity sev in the latest call
Count_sev(sev) == Cardinality({i \in 1..Len(call.st) : call.st[i].sev = sev})

\* C1 (install conflict rule): when {plugin_root}/P or {plugin_root}/P.disabled
\* exists as install_plugin is called with id P, the call returns False,
\* reports an error, starts no download and leaves the plugin root as it was.
InstallConflictRule ==
    (/\ call.op = "install"
     /\ Exists(call.pre, call.arg) \/ Exists(call.pre, DisabledName(call.arg)))
    => /\ call.ret = "False"
       /\ Count_sev("error") >= 1
       /\ ~call.dl
       /\ fs = call.pre

\* an install of an id that itself has a suffix, refused because only the
\* disabled sibling exists
InstallConflictWitness ==
    /\ call.op = "install"
    /\ Suffix(call.arg) # <<>>
    /\ ~Exists(call.pre, call.arg)
    /\ Exists(call.pre, DisabledName(call.arg))
    /\ call.ret = "False"

\* C2 (single representation): no name N has both the directory N and the
\* directory N.disabled in the plugin root.
SingleRepresentation ==
    \A n \in DOMAIN fs : ~(IsDir(fs, n) /\ IsDir(fs, DisabledName(n)))

\* C3 (state unchanged on failure): after a lifecycle call that returned
\* False, get_installed_plugins reports what it reported before the call.
StateUnchangedOnFailure ==
    (call.op \in LifecycleOps /\ call.ret = "False")
    => get_installed_plugins(fs) = get_installed_plugins(call.pre)

\* C4 (install failure cleanup): an install that passed the conflict check
\* and then returned False leaves nothing at {plugin_root}/{id}.
InstallFailureCleanup ==
    (call.op = "install" /\ call.dl /\ call.ret = "False")
    => ~Exists(fs, call.arg)

\* C5 (download cleanup): after every return of install_plugin neither the
\* temp archive {id}_temp.zip nor the staging directory {id}_temp_extract
\* exists in the plugin root.
DownloadCleanup ==
    (call.op = "install" /\ call.ret \in {"True", "False"})
    => /\ ~Exists(fs, TempZip(call.arg))
       /\ ~Exists(fs, TempExtract(call.arg))

\* the source and the destination of the rename of the latest call
RenameSrc == IF call.op = "enable" THEN DisabledName(call.arg) ELSE call.arg

RenameDst == IF call.op = "enable" THEN call.arg ELSE DisabledName(call.arg)

PluginState(root, n) ==
    LET en == [name |-> n, status |-> "enabled", path |-> n] \in get_installed_plugins(root)
        di == [name |-> n, status |-> "disabled", path |-> DisabledName(n)]
                  \in get_installed_plugins(root)
    IN IF en /\ di THEN "both"
       ELSE IF en THEN "enabled"
       ELSE IF di THEN "disabled"
       ELSE "absent"

\* the plugin id a lifecycle call is made for
TargetId ==
    IF call.op = "remove" /\ EndsWithDisabled(call.arg)
    THEN StripDisabled(call.arg) ELSE call.arg

\* C8 (per-plugin state machine): the state of a plugin id changes only by a
\* successful call for that id, along absent->enabled (install),
\* enabled->absent and disabled->absent (remove), enabled->disabled (disable)
\* and disabled->enabled (enable).
PerPluginStateMachine ==
    call.op \in LifecycleOps =>
        \A n \in Ids :
            LET s0 == PluginState(call.pre, n)
                s1 == PluginState(fs, n)
            IN s0 # s1 =>
                /\ call.ret = "True"
                /\ TargetId = n
                /\ \/ call.op = "install" /\ s0 = "absent" /\ s1 = "enabled"
                   \/ call.op = "remove" /\ s0 \in {"enabled", "disabled"} /\ s1 = "absent"
                   \/ call.op = "disable" /\ s0 = "enabled" /\ s1 = "disabled"
                   \/ call.op = "enable" /\ s0 = "disabled" /\ s1 = "enabled"

\* C9 (no exception escapes the core): every call returns normally.
NoExceptionEscapes == call.ret # "raised"

\* C10 (fetch fails soft): on a network error or timeout, a non-2xx response,
\* malformed JSON, or a JSON root that is not a list, fetch_available_plugins
\* returns an empty list, reports exactly one error through the sink and
\* raises nothing.
FetchFailsSoft ==
    (call.op = "fetch" /\ call.fault \in FetchFailures \cup NonListRoots)
    => /\ call.ret = "list"
       /\ call.out = <<>>
       /\ Count_sev("error") = 1

\* a fetch whose JSON root was not a list
FetchNonListWitness ==
    /\ call.op = "fetch"
    /\ call.fault \in NonListRoots
    /\ call.out = <<>>

\* the positions of the well-formed objects in the manifest array fetched
WellFormed ==
    {i \in 1..Len(call.body) :
        call.body[i].kind = "object" /\ RequiredKeys \subseteq DOMAIN call.body[i].obj}

\* the position in the manifest array of the k-th well-formed object
SourceOf(k) ==
    CHOOSE i \in WellFormed : Cardinality({j \in WellFormed : j <= i}) = k

\* the fetch got a JSON array whose elements are all objects
ArrayOfObjects ==
    /\ call.op = "fetch"
    /\ call.fault = "array"
    /\ \A i \in 1..Len(call.body) : call.body[i].kind = "object"

\* C11 (manifest validation): for a manifest array of objects of which N are
\* well-formed and M lack a required key, fetch_available_plugins returns
\* exactly the N well-formed entries, in the order they have in the source.
ManifestValidation ==
    ArrayOfObjects =>
        /\ Len(call.out) = Cardinality(WellFormed)
        /\ \A k \in 1..Len(call.out) :
              \A key \in DOMAIN call.body[SourceOf(k)].obj :
                  /\ key \in DOMAIN call.out[k]
                  /\ call.out[k][key] = call.body[SourceOf(k)].obj[key]

\* a manifest of objects with two different well-formed entries around one
\* that lacks a key
ManifestValidationWitness ==
    /\ ArrayOfObjects
    /\ Len(call.body) = 3
    /\ WellFormed = {1, 3}
    /\ call.body[1] # call.body[3]
    /\ Len(call.out) = 2

\* the archive downloaded has exactly one top-level entry, a directory named
\* after the id installed
SingleTopLevelDirectory ==
    /\ call.body # <<>>
    /\ \A i \in 1..Len(call.body) :
          Len(call.body[i]) > 1 /\ call.body[i][1] = call.arg

\* C12 (archive layout handling): the contents of the single top-level entry
\* become the plugin directory exactly when that entry is a directory named P;
\* for every other archive (several top-level entries, a single entry not
\* named P, a single top-level file named P, no entry) the directory P is
\* created and the entries are extracted directly under it; either way P is
\* a directory after a successful install.
ArchiveLayout ==
    (call.op = "install" /\ call.ret = "True") =>
        /\ IsDir(fs, call.arg)
        /\ IF SingleTopLevelDirectory
           THEN {Tail(call.body[i]) : i \in 1..Len(call.body)} \subseteq fs[call.arg].files
           ELSE fs[call.arg].files = {call.body[i] : i \in 1..Len(call.body)}

\* a scan of an existing plugin root that returned
ScanReturned ==
    /\ call.op = "scan"
    /\ call.arg = <<"dir">>
    /\ call.ret = "list"

\* the folder name is some name followed by .disabled
NameEndsInDisabled(n) == \E k \in 0..Len(n) : n = SubSeq(n, 1, k) \o <<".", "disabled">>

\* C13 (scan classification and filter): get_installed_plugins returns exactly
\* one entry for each direct child directory of the plugin root that has
\* load.py at its top level and none for any other child; an entry has status
\* disabled, and the folder name without the trailing .disabled as its name,
\* exactly when the folder name ends in .disabled; path is the folder on disk.
ScanClassification ==
    ScanReturned =>
        /\ \A n \in DOMAIN fs :
              Cardinality({e \in call.out : e.path = n})
                  = IF fs[n].kind = "dir" /\ <<LoadPy>> \in fs[n].files THEN 1 ELSE 0
        /\ \A e \in call.out :
              /\ e.path \in DOMAIN fs
              /\ IF NameEndsInDisabled(e.path)
                 THEN e.status = "disabled" /\ e.name \o <<".", "disabled">> = e.path
                 ELSE e.status = "enabled" /\ e.name = e.path

\* a scan that lists an enabled and a disabled plugin and passes over a
\* third child of the plugin root
ScanClassificationWitness ==
    /\ ScanReturned
    /\ \E e \in call.out : e.status = "enabled"
    /\ \E e \in call.out : e.status = "disabled"
    /\ \E n \in DOMAIN fs : \A e \in call.out : e.path # n

\* C14 (scan idempotence and read-only): get_installed_plugins leaves the
\* plugin root as it was, and a scan that directly follows another returns
\* the same set of (name, status, path) entries.
ScanReadOnly ==
    call.op = "scan" =>
        /\ fs = call.pre
        /\ call.ret = "list" => \A before \in call.prev : call.out = before

\* the second of two scans that list a disabled plugin
ScanReadOnlyWitness ==
    /\ call.op = "scan"
    /\ call.ret = "list"
    /\ call.prev # {}
    /\ \E e \in call.out : e.status = "disabled"

\* C17 (missing plugin root): when the path of the plugin root does not exist
\* or is not a directory, get_installed_plugins returns no entry, reports a
\* warning, creates nothing and raises nothing.
ScanMissingRoot ==
    (call.op = "scan" /\ call.arg # <<"dir">>) =>
        /\ call.ret = "list"
        /\ call.out = {}
        /\ Count_sev("warning") = 1
        /\ fs = call.pre
        /\ fs = EmptyRoot
        /\ <<plugin_dir>> = call.arg

\* a scan of a plugin root that does not exist
ScanMissingRootWitness ==
    /\ call.op = "scan"
    /\ call.arg = <<"missing">>
    /\ call.ret = "list"

\* C15 (optional manifest fields): every record fetch_available_plugins
\* returns has the keys edmcCompatibility and repositoryUrl; the value is null
\* when the source entry had no such key and the source's value otherwise.
OptionalFields ==
    call.op = "fetch" =>
        \A k \in 1..Len(call.out) : \A key \in {"edmcCompatibility", "repositoryUrl"} :
            /\ key \in DOMAIN call.out[k]
            /\ call.out[k][key] = IF key \in DOMAIN call.body[SourceOf(k)].obj
                                  THEN call.body[SourceOf(k)].obj[key]
                                  ELSE "null"

\* a returned record whose source gave repositoryUrl and not edmcCompatibility
OptionalFieldsWitness ==
    /\ call.op = "fetch"
    /\ \E k \in 1..Len(call.out) :
          /\ DOMAIN call.body[SourceOf(k)].obj = RequiredKeys \cup {"repositoryUrl"}
          /\ call.out[k]["edmcCompatibility"] = "null"
          /\ call.out[k]["repositoryUrl"] # "null"

\* the latest call delivered the restart notice with severity sev
RestartNotice(sev) == \E i \in 1..Len(call.st) : call.st[i] = [sev |-> sev, text |-> "restart"]

\* C16 (restart notice on install), as stated: every install_plugin call that
\* returns True has delivered a message of severity info telling the user that
\* a restart is required, and no call that returns False delivers that message.
RestartNoticeInfo ==
    call.op = "install" =>
        /\ call.ret = "True" => RestartNotice("info")
        /\ call.ret = "False" => \A i \in 1..Len(call.st) : call.st[i].text # "restart"

\* C16 (restart notice on install), amended: every install_plugin call that
\* returns True has delivered a message of severity warning telling the user
\* that a restart is required, and no call that returns False delivers a
\* restart message of any severity.
RestartNoticeWarning ==
    call.op = "install" =>
        /\ call.ret = "True" => RestartNotice("warning") /\ ~RestartNotice("info")
        /\ call.ret = "False" => \A i \in 1..Len(call.st) : call.st[i].text # "restart"

\* an install that returned True
RestartNoticeWitness ==
    /\ call.op = "install"
    /\ call.ret = "True"
    /\ call.st[Len(call.st)].text = "restart"

\* C18 (status protocol): what a lifecycle call tells the sink it has told it
\* by the time it returns; a call that returns False has delivered at least
\* one message of severity error, and a call that returns True none.
StatusProtocol ==
    call.op \in LifecycleOps =>
        /\ call.ret = "False" => Count_sev("error") >= 1
        /\ call.ret = "True" => Count_sev("error") = 0

\* an install that failed after its download had started
StatusProtocolWitness ==
    /\ call.op = "install"
    /\ call.dl
    /\ call.ret = "False"
    /\ call.st[Len(call.st)].sev = "error"

\* C19 (per-entry isolation): in a manifest that is a JSON array, an invalid
\* element of any shape (an object lacking a required key, or a string,
\* number, null or nested array) is skipped by itself, and every well-formed
\* entry is still returned.
PerEntryIsolation ==
    (call.op = "fetch" /\ call.fault = "array") =>
        /\ Len(call.out) = Cardinality(WellFormed)
        /\ \A i \in WellFormed : \E k \in 1..Len(call.out) :
              \A key \in DOMAIN call.body[i].obj :
                  key \in DOMAIN call.out[k] /\ call.out[k][key] = call.body[i].obj[key]

\* the worker threads in flight that change the plugin root
Mutating == {w \in workers : w.task \in {"install", "remove", "toggle"}}

\* C20 (external serialization by the presentation layer): while a worker for
\* an install, remove, enable or disable of a plugin id is in flight, no second
\* mutating worker for the same plugin id is started.
SerializedPerPlugin ==
    \A w1, w2 \in Mutating : w1.arg = w2.arg => w1 = w2

\* C21 (status marshaling): every write to the status line (text and colour,
\* made by PluginBrowserUI._update_status) is made on the presentation thread;
\* no status message of a core operation running on a worker is applied from
\* the worker thread.
StatusMarshaled == ui.status.by = "main"

\* C23 (install frame): a call of install_plugin with id P, successful or not,
\* creates, changes or deletes no entry of the plugin root other than P; every
\* other plugin directory there was before the call, whatever its name
\* (P_temp_extract and P_temp.zip included), is there unchanged after it.
InstallFrame ==
    call.op = "install" =>
        \A n \in (DOMAIN call.pre \cup DOMAIN fs) \ {call.arg} :
            /\ n \in DOMAIN call.pre
            /\ n \in DOMAIN fs
            /\ fs[n] = call.pre[n]

\* C24 (remove frame): for every folder name, the empty string included,
\* remove_plugin deletes at most the direct child of that name; the plugin
\* root itself and every other child are there unchanged after the call, and
\* after a call that returned True the named child is gone.
RemoveFrame ==
    call.op = "remove" =>
        /\ call.ret = "True" => plugin_dir = "dir" /\ call.arg \notin DOMAIN fs
        /\ \A n \in DOMAIN call.pre \ {call.arg} : n \in DOMAIN fs /\ fs[n] = call.pre[n]

\* C27 (sink isolation): a status sink that raises on every invocation
\* changes neither the return value nor the effect on the plugin root of
\* fetch_available_plugins, install_plugin, remove_plugin, enable_plugin or
\* disable_plugin, compared with the same call made with a sink that never
\* raises; _status_update swallows the exception and the operation goes on.
SinkIsolation ==
    call.sink = "raising" =>
        /\ call.ret = call.quiet.ret
        /\ fs = call.quiet.fs
        /\ call.op = "fetch" => call.out = call.quiet.out

\* an install with a raising sink that went through all its steps and
\* returned True
SinkIsolationWitness ==
    /\ call.sink = "raising"
    /\ call.op = "install"
    /\ call.ret = "True"
    /\ Len(call.st) = 6
    /\ fs # call.pre


\* a refresh at the head of the queue in a run that has started all the
\* threads it may start
Held ==
    /\ events # <<>>
    /\ Head(events).ev \in {"refresh_installed", "refresh_available"}
    /\ ui.started >= MaxWorkers

Quiescent == workers = {} /\ events = <<>>

\* C26 (displayed installed list converges): once every worker has finished
\* and every callback queued has run, the installed list shown is the scan of
\* the plugin root as it is, and no scan that read the root before a
\* lifecycle call returned has replaced the display of a scan that read it
\* after.
DisplayedConverges ==
    /\ Quiescent => ui.installed = Rows(get_installed_plugins(fs))
    /\ ~ui.overwritten


\* C25 (concurrent installs of one id): when two install_plugin calls for the
\* same id, interleaved on two threads, are both over, at most one has
\* returned True, {plugin_root}/{id} holds the members of the one archive and
\* no directory {id} of its own, and no temp archive is left.
ConcurrentInstalls ==
    (\A t \in workers : t.pc = "done") =>
        /\ Cardinality({t \in workers : t.ret = "True"}) <= 1
        /\ Exists(fs, P) => fs[P] = PluginDir
        /\ ~Exists(fs, TempZip(P))

=============================================================================
